---- MODULE Spec2Model ----
(***************************************************************************)
(* Farm Hub gateway (raspberry-pi/setup_complete.py).                      *)
(*                                                                         *)
(* and the firmware uploader (ota_upload.py).                              *)
(*                                                                         *)
(* State machines of the installer, of the backend it installs and of the  *)
(* uploader:                                                               *)
(*   SpecDevices  the GET /api/devices fan-out of server.js                *)
(*   SpecWeather  the GET /api/weather handler and its NodeCache           *)
(*   SpecNginx    configure_nginx: generate, write, enable, test, reload   *)
(*   SpecOta      upload_ota: firmware upload, then filesystem upload      *)
(*   SpecInstall  main and interactive_config of the installer             *)
(* Each specification moves its own variables and leaves the others at     *)
(* their initial values.                                                   *)
(***************************************************************************)
EXTENDS Integers, Sequences, FiniteSets, TLC

VARIABLES
    config,           \* the loaded /etc/farmhub/config.json
    \* ---- GET /api/devices
    now,              \* wall clock of the backend, in seconds
    req,              \* "idle" | "waiting" (await Promise.all) | "responded"
    started,          \* the time the request's timers were set
    query,            \* per device id: "fetching" | "body" | "settled"
    timer,            \* per device id: "armed" | "cleared" | "fired"
    reply,            \* per device id: what the device did (HTTP status, outcome)
    results,          \* the handler's results object
    response,         \* the body handed to res.json
    \* ---- GET /api/weather
    clock,            \* wall clock of the backend, in minutes
    weatherCache,     \* NodeCache: key -> [v, t] (value, expiry time)
    arrived,          \* whether the step taken last was the arrival of a request
    pc,               \* per request in progress: "idle" | "fetching" (await fetch)
    cacheKey,         \* per request in progress: the handler's cacheKey
    reqQuery,         \* req.query (lat, lon) of the request that arrived last
    result,           \* the response sent last (code, body)
    upstream,         \* the upstream reply behind the response sent last
    inFlight,         \* key -> number of upstream fetches issued and not yet answered
    \* ---- configure_nginx
    npc,              \* position in configure_nginx
    idx,              \* number of devices the for loop has handled
    upstreams,        \* the upstreams text, as a sequence of blocks
    locations,        \* the locations text, as a sequence of blocks
    nginx_config,     \* the assembled configuration text
    fs,               \* /etc/nginx: sites-available/farmhub, sites-enabled/farmhub, default
    fs0,              \* fs as it was when configure_nginx started
    nginx,            \* the running nginx: the configuration it serves, reload count
    \* ---- upload_ota
    opc,              \* position in upload_ota
    args,             \* firmware_path and filesystem_path as passed by the caller
    disk,             \* the paths at which a file exists
    posts,            \* the POST requests sent so far, each with the reply it got
    ret,              \* "none" | "True" | "False": what upload_ota returned
    \* ---- main, interactive_config
    mpc,              \* position in main and in the interactive_config it calls
    root,             \* is_root()
    cfg,              \* the config dict interactive_config builds and main hands on
    dev_i,            \* number of built-in devices the for loop has handled
    raised,           \* the exception that left main uncaught, "" for none
    exit_status,      \* the process's exit status, -1 while it runs
    ran,              \* the installation steps that completed, in order
    failed,           \* the installation step that raised, "" for none
    config_file,      \* /etc/farmhub/config.json: [exists, content]
    backend           \* farmhub-backend: [started, loaded] (the config it read)

devVars     == <<now, req, started, query, timer, reply, results, response>>
weatherVars == <<clock, weatherCache, arrived, pc, reqQuery, cacheKey, result, upstream, inFlight>>
nginxVars   == <<npc, idx, upstreams, locations, nginx_config, fs, fs0, nginx>>
otaVars     == <<opc, args, disk, posts, ret>>
installVars == <<mpc, root, cfg, dev_i, raised, exit_status, ran, failed, config_file, backend>>
vars        == <<config, devVars, weatherVars, nginxVars, otaVars, installVars>>

(***************************************************************************)
(* Bounds of the model.                                                    *)
(***************************************************************************)
MaxDevices == 2     \* devices in a registry
MaxTime    == 5     \* seconds the /api/devices clock runs
MaxClock   == 3     \* minutes the /api/weather clock runs
MaxReq     == 2     \* concurrent /api/weather requests

(***************************************************************************)
(* JavaScript values, as far as the handlers look at them.                 *)
(***************************************************************************)
JsUndefined  == [type |-> "undefined"]
JsNull       == [type |-> "null"]
JsNumber(n)  == [type |-> "number", n |-> n]
JsString(s)  == [type |-> "string", s |-> s]
JsObject(f)  == [type |-> "object", fields |-> f]

NoFields == [k \in {} |-> TRUE]

\* !v is false exactly for the truthy values
Truthy(v) ==
    CASE v.type = "undefined" -> FALSE
      [] v.type = "null"      -> FALSE
      [] v.type = "number"    -> v.n # 0
      [] v.type = "string"    -> v.s # ""
      [] OTHER                -> TRUE

\* a || b
JsOr(a, b) == IF Truthy(a) THEN a ELSE b

\* {...v}: the own enumerable properties of an object, none of null or a number
Spread(v) == IF v.type = "object" THEN v.fields ELSE NoFields

\* response.json(): the parsed value, or a rejection on a body that is not JSON
ParseJson(text) ==
    CASE text = "{\"temp\":21}"      -> [ok |-> TRUE, value |-> JsObject([temp |-> 21])]
      [] text = "{\"online\":false}" -> [ok |-> TRUE, value |-> JsObject([online |-> FALSE])]
      [] text = "{\"current\":21}"   -> [ok |-> TRUE, value |-> JsObject([current |-> 21])]
      [] text = "{\"error\":true}"   -> [ok |-> TRUE, value |-> JsObject([error |-> TRUE])]
      [] text = "null"               -> [ok |-> TRUE, value |-> JsNull]
      [] text = "0"                  -> [ok |-> TRUE, value |-> JsNumber(0)]
      [] OTHER                       -> [ok |-> FALSE, value |-> JsUndefined]

(***************************************************************************)
(* The configuration: devices in insertion order, weather settings.        *)
(***************************************************************************)
DeviceIds == {"greenhouse", "coop1", "coop2"}

Device(id) ==
    [id |-> id, name |-> id, ip |-> "10.0.0." \o id, port |-> 80]

RECURSIVE Registries(_)
Registries(n) ==
    IF n = 0 THEN {<<>>}
    ELSE LET shorter == Registries(n - 1)
         IN  shorter \cup
             { Append(r, Device(id)) :
                 r \in {s \in shorter : Len(s) = n - 1},
                 id \in DeviceIds }

Ids(devices) == {devices[i].id : i \in 1..Len(devices)}

\* a dict / a JSON object holds each key once
AllRegistries == {r \in Registries(MaxDevices) : Cardinality(Ids(r)) = Len(r)}

DeviceOf(devices, id) == CHOOSE d \in {devices[i] : i \in 1..Len(devices)} : d.id = id

DefaultWeather == [cache_minutes |-> 10, latitude |-> JsString(""), longitude |-> JsString("")]


(***************************************************************************)
(* GET /api/devices: one status query per device, each with its own        *)
(* AbortController and 3 s timer, joined by Promise.all.                   *)
(***************************************************************************)
DeviceTimeout == 3      \* setTimeout(() => controller.abort(), 3000), in seconds

HttpStatuses == {200, 500}
DeviceBodies == {"{\"temp\":21}", "{\"online\":false}", "null", "<html>"}

\* obj[id] = entry
Put(obj, id, entry) ==
    [k \in (DOMAIN obj) \cup {id} |-> IF k = id THEN entry ELSE obj[k]]

\* { ...device, status: { ...status, online: true } }
OnlineEntry(device, status) ==
    [status |-> ([online |-> TRUE] @@ Spread(status))] @@ device

\* { ...device, status: { online: false } }
OfflineEntry(device) ==
    [status |-> [online |-> FALSE]] @@ device

\* the try branch after response.json() resolved
TryResult(res, device, status) == Put(res, device.id, OnlineEntry(device, status))

\* a catch branch that swallows the error and records nothing
CatchResultDropped(res, device) == res

\* the catch branch
CatchResult(res, device) == Put(res, device.id, OfflineEntry(device))

DevIds == Ids(config.devices)

AllSettled == \A id \in DevIds : query[id] = "settled"

\* app.get('/api/devices'): the map callbacks run up to their first await
DevicesRequest ==
    /\ req = "idle"
    /\ now + DeviceTimeout < MaxTime
    /\ req' = "waiting"
    /\ started' = now
    /\ results' = NoFields
    /\ query' = [id \in DevIds |-> "fetching"]
    /\ timer' = [id \in DevIds |-> "armed"]
    /\ reply' = [id \in DevIds |-> [status |-> 0, outcome |-> "pending"]]
    /\ UNCHANGED <<config, now, response, weatherVars, nginxVars,
                   otaVars, installVars>>

\* the device answers with headers: fetch resolves, clearTimeout, response.json() starts
FetchResolve(id, status) ==
    /\ req = "waiting"
    /\ query[id] = "fetching"
    /\ query' = [query EXCEPT ![id] = "body"]
    /\ timer' = [timer EXCEPT ![id] = "cleared"]
    /\ reply' = [reply EXCEPT ![id] = [status |-> status, outcome |-> "headers"]]
    /\ UNCHANGED <<config, now, req, started, results, response, weatherVars, nginxVars,
                   otaVars, installVars>>

\* the connection is refused: fetch rejects, the catch branch runs
FetchReject(id) ==
    /\ req = "waiting"
    /\ query[id] = "fetching"
    /\ query' = [query EXCEPT ![id] = "settled"]
    /\ reply' = [reply EXCEPT ![id] = [status |-> 0, outcome |-> "refused"]]
    /\ results' = CatchResult(results, DeviceOf(config.devices, id))
    /\ UNCHANGED <<config, now, req, started, timer, response, weatherVars, nginxVars,
                   otaVars, installVars>>

\* the 3 s timer fires: controller.abort() rejects a fetch still pending
TimerFire(id) ==
    /\ req \in {"waiting", "responded"}
    /\ timer[id] = "armed"
    /\ now >= started + DeviceTimeout
    /\ timer' = [timer EXCEPT ![id] = "fired"]
    /\ IF query[id] = "fetching"
       THEN /\ query' = [query EXCEPT ![id] = "settled"]
            /\ reply' = [reply EXCEPT ![id] = [status |-> 0, outcome |-> "timeout"]]
            /\ results' = CatchResult(results, DeviceOf(config.devices, id))
       ELSE UNCHANGED <<query, reply, results>>
    /\ UNCHANGED <<config, now, req, started, response, weatherVars, nginxVars,
                   otaVars, installVars>>

\* the body arrives whole: response.json() resolves or rejects
BodyComplete(id, text) ==
    /\ req = "waiting"
    /\ query[id] = "body"
    /\ query' = [query EXCEPT ![id] = "settled"]
    /\ LET parsed == ParseJson(text)
           device == DeviceOf(config.devices, id)
       IN  IF parsed.ok
           THEN /\ results' = TryResult(results, device, parsed.value)
                /\ reply' = [reply EXCEPT ![id].outcome = "ok"]
           ELSE /\ results' = CatchResult(results, device)
                /\ reply' = [reply EXCEPT ![id].outcome = "malformed"]
    /\ UNCHANGED <<config, now, req, started, timer, response, weatherVars, nginxVars,
                   otaVars, installVars>>

\* the connection breaks while the body streams: response.json() rejects
BodyError(id) ==
    /\ req = "waiting"
    /\ query[id] = "body"
    /\ query' = [query EXCEPT ![id] = "settled"]
    /\ reply' = [reply EXCEPT ![id].outcome = "reset"]
    /\ results' = CatchResult(results, DeviceOf(config.devices, id))
    /\ UNCHANGED <<config, now, req, started, timer, response, weatherVars, nginxVars,
                   otaVars, installVars>>

\* Promise.all resolved: res.json(results)
SendResponse ==
    /\ req = "waiting"
    /\ AllSettled
    /\ req' = "responded"
    /\ response' = results
    /\ UNCHANGED <<config, now, started, query, timer, reply, results, weatherVars, nginxVars,
                   otaVars, installVars>>

\* a second passes; a due timer and a runnable continuation go first
DevTick ==
    /\ now < MaxTime
    /\ req = "waiting" =>
          /\ ~AllSettled
          /\ \A id \in DevIds : timer[id] = "armed" => now < started + DeviceTimeout
    /\ req = "responded" =>
          \A id \in DevIds : timer[id] = "armed" => now < started + DeviceTimeout
    /\ now' = now + 1
    /\ UNCHANGED <<config, req, started, query, timer, reply, results, response,
                   weatherVars, nginxVars,
                   otaVars, installVars>>

WeatherIdle ==
    /\ clock = 0
    /\ weatherCache = NoFields
    /\ arrived = FALSE
    /\ pc = [r \in 1..MaxReq |-> "idle"]
    /\ reqQuery = [lat |-> JsUndefined, lon |-> JsUndefined]
    /\ cacheKey = [r \in 1..MaxReq |-> <<>>]
    /\ result = [code |-> 0, body |-> JsUndefined]
    /\ upstream = [kind |-> "none", status |-> 0]
    /\ inFlight = NoFields

DevicesIdle ==
    /\ now = 0
    /\ req = "idle"
    /\ started = 0
    /\ query = NoFields
    /\ timer = NoFields
    /\ reply = NoFields
    /\ results = NoFields
    /\ response = NoFields

NginxIdle ==
    /\ npc = "idle"
    /\ idx = 0
    /\ upstreams = <<>>
    /\ locations = <<>>
    /\ nginx_config = <<>>
    /\ fs = [available |-> [exists |-> FALSE, text |-> <<>>], enabled |-> FALSE, default |-> TRUE]
    /\ fs0 = fs
    /\ nginx = [active |-> <<>>, reloads |-> 0]

\* Python's None
None == "None"

OtaIdle ==
    /\ opc = "idle"
    /\ args = [firmware_path |-> None, filesystem_path |-> None]
    /\ disk = {}
    /\ posts = <<>>
    /\ ret = "none"

InstallIdle ==
    /\ mpc = "idle"
    /\ root = FALSE
    /\ cfg = <<>>
    /\ dev_i = 0
    /\ raised = ""
    /\ exit_status = -1
    /\ ran = <<>>
    /\ failed = ""
    /\ config_file = [exists |-> FALSE, content |-> <<>>]
    /\ backend = [started |-> FALSE, loaded |-> <<>>]

InitDevices ==
    /\ config \in {[devices |-> r, weather |-> DefaultWeather] : r \in AllRegistries}
    /\ OtaIdle
    /\ InstallIdle
    /\ DevicesIdle
    /\ WeatherIdle
    /\ NginxIdle

NextDevices ==
    \/ DevicesRequest
    \/ \E id \in DevIds, status \in HttpStatuses : FetchResolve(id, status)
    \/ \E id \in DevIds : FetchReject(id)
    \/ \E id \in DevIds : TimerFire(id)
    \/ \E id \in DevIds, text \in DeviceBodies : BodyComplete(id, text)
    \/ \E id \in DevIds : BodyError(id)
    \/ SendResponse
    \/ DevTick

SpecDevices == InitDevices /\ [][NextDevices]_vars

(***************************************************************************)
(* GET /api/weather: coordinates from the query or the configuration, a    *)
(* NodeCache lookup, an upstream fetch on a miss.                          *)
(***************************************************************************)
DefaultCacheMinutes == 10   \* config.weather?.cache_minutes || 10

\* the wizard stores the answers as given: empty strings, or a coordinate pair
WeatherConfigs ==
    { [cache_minutes |-> m, latitude |-> JsString(c[1]), longitude |-> JsString(c[2])] :
        m \in {0, 1}, c \in {<<"", "">>, <<"37.77", "-122.42">>} }

QueryLats == {JsUndefined, JsString("51.50")}
QueryLons == {JsUndefined, JsString("-122.42")}

\* what the upstream answers: a forecast, a bare JSON number, an error object
\* with a 4xx status, a gateway's error page
UpstreamReplies ==
    { [status |-> 200, text |-> "{\"current\":21}"],
      [status |-> 200, text |-> "0"],
      [status |-> 400, text |-> "{\"error\":true}"],
      [status |-> 502, text |-> "<html>"] }

Requests == 1..MaxReq

\* stdTTL: (config.weather?.cache_minutes || 10) * 60 seconds, here in minutes
StdTTL ==
    IF config.weather.cache_minutes # 0
    THEN config.weather.cache_minutes
    ELSE DefaultCacheMinutes

\* the validation written with && in place of ||
MissingCoordinatesBoth(lat, lon) == ~Truthy(lat) /\ ~Truthy(lon)

\* if (!lat || !lon)
MissingCoordinates(lat, lon) == ~Truthy(lat) \/ ~Truthy(lon)

\* `weather_${lat}_${lon}`
CacheKey(lat, lon) == <<"weather", lat.s, lon.s>>

\* NodeCache._check: an entry is dead once its expiry time lies in the past
Expired(entry, time) == entry.t < time

\* NodeCache.get: the value of a live entry, undefined otherwise
CacheGet(cache, key, time) ==
    IF key \in DOMAIN cache /\ ~Expired(cache[key], time)
    THEN cache[key].v
    ELSE JsUndefined

\* NodeCache.get deletes the entry it finds expired
CacheAfterGet(cache, key, time) ==
    IF key \in DOMAIN cache /\ Expired(cache[key], time)
    THEN [k \in (DOMAIN cache) \ {key} |-> cache[k]]
    ELSE cache

\* NodeCache.set with the standard TTL; `from` remembers the HTTP status of the
\* upstream reply the value was parsed from
CacheSet(cache, key, value, time, status) ==
    Put(cache, key, [v |-> value, t |-> time + StdTTL, from |-> status])

\* if (!data)
CacheMiss(data) == ~Truthy(data)

Count(f, key) == IF key \in DOMAIN f THEN f[key] ELSE 0

SetCount(f, key, n) ==
    IF n = 0
    THEN [k \in (DOMAIN f) \ {key} |-> f[k]]
    ELSE Put(f, key, n)

\* a handler that fetches the URL twice for one miss
IssueFetchTwice(f, key) == SetCount(f, key, Count(f, key) + 2)

\* fetch(url): one more upstream request on its way
IssueFetch(f, key) == SetCount(f, key, Count(f, key) + 1)

\* the upstream request is over (answered or failed)
FetchOver(f, key) == SetCount(f, key, Count(f, key) - 1)

NoReply == [kind |-> "none", status |-> 0]

\* app.get('/api/weather') up to its first await, or to its response; the
\* handlers in progress are interchangeable, the lowest free one takes the request
WeatherRequest(r, qlat, qlon) ==
    /\ pc[r] = "idle"
    /\ \A other \in Requests : other < r => pc[other] # "idle"
    /\ arrived' = TRUE
    /\ reqQuery' = [lat |-> qlat, lon |-> qlon]
    /\ LET lat == JsOr(qlat, config.weather.latitude)
           lon == JsOr(qlon, config.weather.longitude)
       IN  IF MissingCoordinates(lat, lon)
           THEN /\ result' = [code |-> 400, body |-> JsObject([error |-> "Missing coordinates"])]
                /\ upstream' = NoReply
                /\ UNCHANGED <<pc, cacheKey, weatherCache, inFlight>>
           ELSE LET key  == CacheKey(lat, lon)
                    data == CacheGet(weatherCache, key, clock)
                IN  /\ weatherCache' = CacheAfterGet(weatherCache, key, clock)
                    /\ IF CacheMiss(data)
                       THEN /\ pc' = [pc EXCEPT ![r] = "fetching"]
                            /\ cacheKey' = [cacheKey EXCEPT ![r] = key]
                            /\ inFlight' = IssueFetch(inFlight, key)
                            /\ UNCHANGED <<result, upstream>>
                       ELSE /\ result' = [code |-> 200, body |-> data]
                            /\ upstream' = NoReply
                            /\ UNCHANGED <<pc, cacheKey, inFlight>>
    /\ UNCHANGED <<config, clock, devVars, nginxVars,
                   otaVars, installVars>>

\* the upstream answers: response.json(), weatherCache.set, res.json(data);
\* a body that does not parse goes to the catch branch
UpstreamReply(r, status, text) ==
    /\ pc[r] = "fetching"
    /\ arrived' = FALSE
    /\ pc' = [pc EXCEPT ![r] = "idle"]
    /\ cacheKey' = [cacheKey EXCEPT ![r] = <<>>]
    /\ inFlight' = FetchOver(inFlight, cacheKey[r])
    /\ LET parsed == ParseJson(text)
       IN  /\ upstream' = [kind |-> IF parsed.ok THEN "json" ELSE "unparsable", status |-> status]
           /\ IF parsed.ok
              THEN /\ weatherCache' =
                        CacheSet(weatherCache, cacheKey[r], parsed.value, clock, status)
                   /\ result' = [code |-> 200, body |-> parsed.value]
              ELSE /\ result' = [code |-> 500, body |-> JsObject([error |-> "Weather fetch failed"])]
                   /\ UNCHANGED weatherCache
    /\ UNCHANGED <<config, clock, reqQuery, devVars, nginxVars,
                   otaVars, installVars>>

\* the upstream cannot be reached: fetch rejects, the catch branch answers 500
UpstreamFail(r) ==
    /\ pc[r] = "fetching"
    /\ arrived' = FALSE
    /\ pc' = [pc EXCEPT ![r] = "idle"]
    /\ cacheKey' = [cacheKey EXCEPT ![r] = <<>>]
    /\ inFlight' = FetchOver(inFlight, cacheKey[r])
    /\ upstream' = [kind |-> "network_error", status |-> 0]
    /\ result' = [code |-> 500, body |-> JsObject([error |-> "Weather fetch failed"])]
    /\ UNCHANGED <<config, clock, weatherCache, reqQuery, devVars, nginxVars,
                   otaVars, installVars>>

\* NodeCache's periodic check deletes the expired entries
CacheSweep ==
    /\ \E k \in DOMAIN weatherCache : Expired(weatherCache[k], clock)
    /\ arrived' = FALSE
    /\ weatherCache' =
          [k \in {x \in DOMAIN weatherCache : ~Expired(weatherCache[x], clock)} |->
              weatherCache[k]]
    /\ UNCHANGED <<config, clock, pc, reqQuery, cacheKey, result, upstream, inFlight,
                   devVars, nginxVars,
                   otaVars, installVars>>

\* a minute passes
WeatherTick ==
    /\ clock < MaxClock
    /\ arrived' = FALSE
    /\ clock' = clock + 1
    /\ UNCHANGED <<config, weatherCache, pc, reqQuery, cacheKey, result, upstream, inFlight,
                   devVars, nginxVars,
                   otaVars, installVars>>

InitWeather ==
    /\ config \in {[devices |-> <<>>, weather |-> w] : w \in WeatherConfigs}
    /\ OtaIdle
    /\ InstallIdle
    /\ DevicesIdle
    /\ WeatherIdle
    /\ NginxIdle

NextWeather ==
    \/ \E r \in Requests, qlat \in QueryLats, qlon \in QueryLons : WeatherRequest(r, qlat, qlon)
    \/ \E r \in Requests, u \in UpstreamReplies : UpstreamReply(r, u.status, u.text)
    \/ \E r \in Requests : UpstreamFail(r)
    \/ CacheSweep
    \/ WeatherTick

SpecWeather == InitWeather /\ [][NextWeather]_vars

(***************************************************************************)
(* Claims about GET /api/devices.                                          *)
(***************************************************************************)
FailedOutcomes == {"refused", "timeout", "malformed", "reset"}

\* C1: the response of GET /api/devices holds exactly one entry per configured
\* device identifier, whatever each device did: none is omitted, no other key
\* appears, each entry carries its device's metadata, and a device whose query
\* failed (refused, timed out, malformed body, broken connection) has
\* status.online = false in it.
C1_OneEntryPerDevice ==
    req = "responded" =>
        /\ DOMAIN response = DevIds
        /\ \A id \in DevIds :
              /\ response[id].id = id
              /\ response[id].ip = DeviceOf(config.devices, id).ip
              /\ reply[id].outcome \in FailedOutcomes =>
                    response[id].status.online = FALSE

\* a response was sent for two devices, one timed out and the other answered
C1_Witness ==
    /\ req = "responded"
    /\ Cardinality(DevIds) = 2
    /\ \E a, b \in DevIds :
          /\ reply[a].outcome = "timeout"
          /\ reply[b].outcome = "ok"
          /\ response[b].status.online = TRUE

\* C2: a request's response is sent within the per-device timeout: once the
\* 3 s of its timers have passed, no device behaviour keeps it waiting.
C2_RespondsWithinTimeout ==
    req = "waiting" => now <= started + DeviceTimeout

\* C3: a device is reported online = true exactly when its status query got a
\* 2xx reply with a well-formed JSON body; a non-2xx reply or a malformed body
\* is reported online = false.
C3_OnlineOnly2xxJson ==
    req = "responded" =>
        \A id \in DOMAIN response :
            response[id].status.online = TRUE <=>
                (reply[id].outcome = "ok" /\ reply[id].status \in 200..299)

(***************************************************************************)
(* Claims about GET /api/weather.                                          *)
(***************************************************************************)
NoneFetching == \A r \in Requests : pc[r] = "idle"

\* the coordinates a request works with: its own, else the configured ones
EffectiveLat(q) == IF Truthy(q.lat) THEN q.lat ELSE config.weather.latitude
EffectiveLon(q) == IF Truthy(q.lon) THEN q.lon ELSE config.weather.longitude

HasCoordinates(q) == EffectiveLat(q).s # "" /\ EffectiveLon(q).s # ""

KeyOf(q) == <<"weather", EffectiveLat(q).s, EffectiveLon(q).s>>

\* C4: with requests served one after the other, a request that arrives while
\* the cache holds a value for its (lat, lon) younger than the TTL issues no
\* upstream call and answers 200 with the cached value, whatever JSON value it
\* is; a request that arrives when the cache holds nothing for its key, or
\* after the entry's TTL has run out, issues exactly one upstream call.
C4_CachedWithinTTL ==
    [][ (arrived' /\ NoneFetching /\ HasCoordinates(reqQuery')) =>
          LET key == KeyOf(reqQuery')
          IN  /\ (key \in DOMAIN weatherCache /\ clock < weatherCache[key].t) =>
                    /\ inFlight' = inFlight
                    /\ pc' = pc
                    /\ result' = [code |-> 200, body |-> weatherCache[key].v]
              /\ (key \notin DOMAIN weatherCache \/ clock > weatherCache[key].t) =>
                    /\ Count(inFlight', key) = 1
                    /\ \E r \in Requests : pc'[r] = "fetching" /\ cacheKey'[r] = key
      ]_vars

UpstreamFailed(u) ==
    \/ u.kind = "network_error"
    \/ u.kind = "unparsable"
    \/ u.kind = "json" /\ u.status \notin 200..299

\* C5: a failed upstream query (network error, non-2xx reply, unparsable
\* body) is answered with a request-level failure (500), and no cache entry
\* holds a value that came from a failed query, so no later request is
\* answered from one.
C5_FailedNeverCached ==
    /\ UpstreamFailed(upstream) => result.code = 500
    /\ \A key \in DOMAIN weatherCache : weatherCache[key].from \in 200..299

\* C6: at most one upstream computation per cache key is in flight at any time.
C6_SingleFlight ==
    \A key \in DOMAIN inFlight : inFlight[key] <= 1

\* C6, as amended: every request that misses the cache starts its own upstream
\* computation and only that one, so the computations in flight for a key are
\* exactly as many as the requests waiting on that key (up to one per
\* concurrent request).
C6_OneFetchPerMiss ==
    \A key \in ((DOMAIN inFlight) \cup {cacheKey[r] : r \in Requests}) \ {<<>>} :
        /\ Count(inFlight, key) =
              Cardinality({r \in Requests : pc[r] = "fetching" /\ cacheKey[r] = key})
        /\ Count(inFlight, key) <= MaxReq

\* two requests for one key wait on two upstream computations
C6_Witness ==
    \E key \in DOMAIN inFlight :
        /\ inFlight[key] = 2
        /\ \E a, b \in Requests :
              a # b /\ pc[a] = "fetching" /\ pc[b] = "fetching"
                    /\ cacheKey[a] = key /\ cacheKey[b] = key

\* C7: a request for which no latitude or no longitude is available, neither
\* in its query nor in the configuration, is answered 400 in the step it
\* arrives in: no upstream call is issued and the cache is left as it was.
C7_MissingCoordinatesRejected ==
    [][ (arrived' /\ ~HasCoordinates(reqQuery')) =>
          /\ result'.code = 400
          /\ upstream'.kind = "none"
          /\ inFlight' = inFlight
          /\ pc' = pc
          /\ weatherCache' = weatherCache
      ]_vars

\* a request with a latitude and no longitude was rejected while the cache
\* held an entry
C7_Witness ==
    /\ arrived
    /\ Truthy(reqQuery.lat)
    /\ ~HasCoordinates(reqQuery)
    /\ result.code = 400
    /\ DOMAIN weatherCache # {}

(***************************************************************************)
(* configure_nginx: build the upstream and location blocks device by       *)
(* device, assemble the configuration, write it, enable the site, remove   *)
(* the default site, run nginx -t, reload nginx.                           *)
(***************************************************************************)
\* device.get(key, default)
Get(device, key, default) == IF key \in DOMAIN device THEN device[key] ELSE default

\* upstream {device_id} { server {ip}:{port}; keepalive 2; }
UpstreamBlock(device) ==
    [block  |-> "upstream",
     name   |-> device.id,
     server |-> <<Get(device, "ip", "127.0.0.1"), Get(device, "port", 80)>>]

Location(path, proxy_pass, upgrade, limit_req) ==
    [block |-> "location", path |-> path, proxy_pass |-> proxy_pass,
     upgrade |-> upgrade, limit_req |-> limit_req]

\* location /{device_id}/ { proxy_pass http://{device_id}/; ... }
PlainLocation(id) == Location("/" \o id \o "/", "http://" \o id \o "/", FALSE, "")

\* location /{device_id}/ws { proxy_pass http://{device_id}/ws; Upgrade ...; }
WsLocation(id) == Location("/" \o id \o "/ws", "http://" \o id \o "/ws", TRUE, "")

\* a loop body that leaves out the WebSocket location
DeviceLocationsPlainOnly(id) == <<PlainLocation(id)>>

\* what one loop iteration appends to locations
DeviceLocations(id) == <<PlainLocation(id), WsLocation(id)>>

\* limit_req_zone $binary_remote_addr zone=...:10m rate=...r/s;
Zones ==
    << [block |-> "limit_req_zone", zone |-> "api_limit", rate |-> 10],
       [block |-> "limit_req_zone", zone |-> "ws_limit",  rate |-> 5] >>

\* server { listen 80; return 301 https://$host$request_uri; }
RedirectServer == [block |-> "server", listen |-> 80, locations |-> <<>>]

\* location / { try_files $uri $uri/ /index.html; }
DashboardLocation == Location("/", "", FALSE, "")

\* location /api/ { limit_req zone=api_limit ...; proxy_pass http://127.0.0.1:3000; }
ApiLocation == Location("/api/", "http://127.0.0.1:3000", FALSE, "api_limit")

\* location = /error.html { internal; root /var/www/farmhub; }
ErrorLocation == Location("= /error.html", "", FALSE, "")

\* server { listen 443 ssl http2; ... {locations} ... }
MainServer(locs) ==
    [block |-> "server", listen |-> 443,
     locations |-> <<DashboardLocation, ApiLocation>> \o locs \o <<ErrorLocation>>]

\* the nginx_config f-string
NginxConfig(ups, locs) == Zones \o ups \o <<RedirectServer, MainServer(locs)>>

NoFile  == [exists |-> FALSE, text |-> <<>>]
OldFile == [exists |-> TRUE, text |-> <<[block |-> "previous"]>>]

\* the for loop body: one device's upstream and locations
LoopStep ==
    /\ npc = "loop"
    /\ idx < Len(config.devices)
    /\ LET device == config.devices[idx + 1]
       IN  /\ upstreams' = Append(upstreams, UpstreamBlock(device))
           /\ locations' = locations \o DeviceLocations(device.id)
    /\ idx' = idx + 1
    /\ UNCHANGED <<config, npc, nginx_config, fs, fs0, nginx, devVars, weatherVars,
                   otaVars, installVars>>

\* the loop is over: nginx_config = f"""..."""
Assemble ==
    /\ npc = "loop"
    /\ idx = Len(config.devices)
    /\ nginx_config' = NginxConfig(upstreams, locations)
    /\ npc' = "write"
    /\ UNCHANGED <<config, idx, upstreams, locations, fs, fs0, nginx, devVars, weatherVars,
                   otaVars, installVars>>

\* nginx_path.write_text(nginx_config)
WriteConfig ==
    /\ npc = "write"
    /\ fs' = [fs EXCEPT !.available = [exists |-> TRUE, text |-> nginx_config]]
    /\ npc' = "enable"
    /\ UNCHANGED <<config, idx, upstreams, locations, nginx_config, fs0, nginx,
                   devVars, weatherVars,
                   otaVars, installVars>>

\* if enabled_path.exists(): unlink; enabled_path.symlink_to(nginx_path)
EnableSite ==
    /\ npc = "enable"
    /\ fs' = [fs EXCEPT !.enabled = TRUE]
    /\ npc' = "default"
    /\ UNCHANGED <<config, idx, upstreams, locations, nginx_config, fs0, nginx,
                   devVars, weatherVars,
                   otaVars, installVars>>

\* if default_site.exists(): default_site.unlink()
RemoveDefault ==
    /\ npc = "default"
    /\ fs' = [fs EXCEPT !.default = FALSE]
    /\ npc' = "test"
    /\ UNCHANGED <<config, idx, upstreams, locations, nginx_config, fs0, nginx,
                   devVars, weatherVars,
                   otaVars, installVars>>

\* run_command("nginx -t"): check=True raises CalledProcessError on rejection
NginxTest(accepted) ==
    /\ npc = "test"
    /\ npc' = IF accepted THEN "reload" ELSE "rejected"
    /\ UNCHANGED <<config, idx, upstreams, locations, nginx_config, fs, fs0, nginx,
                   devVars, weatherVars,
                   otaVars, installVars>>

\* run_command("systemctl reload nginx"): nginx now serves the enabled site
Reload(succeeded) ==
    /\ npc = "reload"
    /\ IF succeeded
       THEN /\ nginx' = [active |-> fs.available.text, reloads |-> nginx.reloads + 1]
            /\ npc' = "done"
       ELSE /\ npc' = "reload_failed"
            /\ UNCHANGED nginx
    /\ UNCHANGED <<config, idx, upstreams, locations, nginx_config, fs, fs0,
                   devVars, weatherVars,
                   otaVars, installVars>>

\* a device entry without ip and port: configure_nginx falls back to its defaults
BareDevice(id) == [id |-> id, name |-> id]

NginxRegistries == AllRegistries \cup {<<BareDevice("coop1")>>}

\* configure_nginx is entered: a fresh system, or one a previous run configured
InitNginx ==
    /\ config \in {[devices |-> r, weather |-> DefaultWeather] : r \in NginxRegistries}
    /\ OtaIdle
    /\ InstallIdle
    /\ DevicesIdle
    /\ WeatherIdle
    /\ npc = "loop"
    /\ idx = 0
    /\ upstreams = <<>>
    /\ locations = <<>>
    /\ nginx_config = <<>>
    /\ fs \in [available : {NoFile, OldFile}, enabled : BOOLEAN, default : BOOLEAN]
    /\ fs0 = fs
    /\ nginx = [active |-> IF fs.enabled THEN fs.available.text ELSE <<>>, reloads |-> 0]

NextNginx ==
    \/ LoopStep
    \/ Assemble
    \/ WriteConfig
    \/ EnableSite
    \/ RemoveDefault
    \/ \E accepted \in BOOLEAN : NginxTest(accepted)
    \/ \E succeeded \in BOOLEAN : Reload(succeeded)

SpecNginx == InitNginx /\ [][NextNginx]_vars

(***************************************************************************)
(* Claims about configure_nginx.                                           *)
(***************************************************************************)
Generated == npc \notin {"idle", "loop"}

RegistryIds == [i \in 1..Len(config.devices) |-> config.devices[i].id]

FixedPaths == {"/", "/api/", "= /error.html"}

MainServerOf(text) == CHOOSE b \in {text[i] : i \in 1..Len(text)} :
                          b.block = "server" /\ b.listen = 443

IsUpstream(b) == b.block = "upstream"
IsDeviceLocation(b) == b.path \notin FixedPaths

UpstreamNames(text) ==
    LET ups == SelectSeq(text, IsUpstream) IN [i \in 1..Len(ups) |-> ups[i].name]

DeviceLocationsOf(text) == SelectSeq(MainServerOf(text).locations, IsDeviceLocation)

\* C8: the generated configuration declares one upstream per device, in the
\* registry's order and for no other name, and holds for each device, in the
\* same order, its plain location /{id}/ followed by its WebSocket-upgrade
\* location /{id}/ws, and no other device location; an empty registry gives
\* neither.
C8_OneUpstreamTwoLocations ==
    Generated =>
        LET locs == DeviceLocationsOf(nginx_config)
            n    == Len(config.devices)
        IN  /\ UpstreamNames(nginx_config) = RegistryIds
            /\ Len(locs) = 2 * n
            /\ \A i \in 1..n :
                  LET id == RegistryIds[i]
                  IN  /\ locs[2 * i - 1].path = "/" \o id \o "/"
                      /\ locs[2 * i - 1].proxy_pass = "http://" \o id \o "/"
                      /\ ~locs[2 * i - 1].upgrade
                      /\ locs[2 * i].path = "/" \o id \o "/ws"
                      /\ locs[2 * i].proxy_pass = "http://" \o id \o "/ws"
                      /\ locs[2 * i].upgrade

\* a configuration for two devices was generated and written
C8_Witness ==
    /\ npc = "done"
    /\ Len(config.devices) = 2
    /\ fs.available.text = nginx_config
    /\ Len(DeviceLocationsOf(nginx_config)) = 4

ZoneRate(text, zone) ==
    LET z == CHOOSE b \in {text[i] : i \in 1..Len(text)} :
                 b.block = "limit_req_zone" /\ b.zone = zone
    IN  z.rate

HasZone(text, zone) ==
    \E i \in 1..Len(text) : text[i].block = "limit_req_zone" /\ text[i].zone = zone

\* C9: the generated configuration declares the API zone and a tighter
\* WebSocket zone, the /api/ location applies the API zone and every
\* WebSocket-upgrade location applies the WebSocket zone.
C9_ZonesReferenced ==
    Generated =>
        LET locs == MainServerOf(nginx_config).locations
        IN  /\ HasZone(nginx_config, "api_limit")
            /\ HasZone(nginx_config, "ws_limit")
            /\ ZoneRate(nginx_config, "ws_limit") < ZoneRate(nginx_config, "api_limit")
            /\ \A i \in 1..Len(locs) :
                  /\ locs[i].path = "/api/" => locs[i].limit_req = "api_limit"
                  /\ locs[i].upgrade => locs[i].limit_req = "ws_limit"

\* C10: when nginx -t rejects the generated text, nginx is not reloaded and
\* the installed configuration file, the enabled-site link and the default
\* site are as they were when configure_nginx started.
C10_RejectedLeavesPriorState ==
    npc = "rejected" =>
        /\ nginx.reloads = 0
        /\ fs = fs0

(***************************************************************************)
(* Routing of a request by the generated server block.  A request path is  *)
(* its sequence of segments: <<"coop1", "ws">> is /coop1/ws, <<"api", "">> *)
(* is /api/ and <<"">> is /.                                               *)
(***************************************************************************)
RECURSIVE PathString(_)
PathString(segs) ==
    IF segs = <<>> THEN ""
    ELSE PathString(SubSeq(segs, 1, Len(segs) - 1)) \o "/" \o segs[Len(segs)]

\* the prefixes of a request path that end at a segment boundary, by length
PrefixAt(segs, k) ==
    IF k % 2 = 0 THEN PathString(SubSeq(segs, 1, k \div 2)) \o "/"
    ELSE PathString(SubSeq(segs, 1, (k + 1) \div 2))

PrefixRanks(segs) == {k \in 0..(2 * Len(segs) - 1) : PrefixAt(segs, k) # "//"}

\* nginx picks the exact-match location, else the longest matching prefix
Route(text, segs) ==
    LET locs   == MainServerOf(text).locations
        exact  == {i \in 1..Len(locs) : locs[i].path = "= " \o PathString(segs)}
        rank(i) == {k \in PrefixRanks(segs) : PrefixAt(segs, k) = locs[i].path}
        prefix == {i \in 1..Len(locs) : rank(i) # {}}
        best   == CHOOSE i \in prefix :
                      \A j \in prefix : \A k \in rank(j) : \E m \in rank(i) : m >= k
    IN  IF exact # {} THEN locs[CHOOSE i \in exact : TRUE] ELSE locs[best]

RequestPaths ==
    {<<"">>, <<"index.html">>, <<"status">>, <<"dashboard", "app.js">>, <<"api">>,
     <<"api", "devices">>, <<"error.html">>,
     <<"greenhouse", "">>, <<"greenhouse", "ws">>, <<"coop1", "api", "status">>,
     <<"coop2", "ws">>}

AggregationService == "http://127.0.0.1:3000"

\* C11: every request path that no device location, API location or error
\* page claims is routed to a location that proxies to the aggregation
\* service at 127.0.0.1:3000.
C11_CatchAllForwardsToBackend ==
    Generated =>
        \A segs \in RequestPaths :
            LET loc == Route(nginx_config, segs)
            IN  \/ IsDeviceLocation(loc)
                \/ loc.path \in {"/api/", "= /error.html"}
                \/ loc.proxy_pass = AggregationService

\* the routing table the claims on routing are read against
RoutesAsWritten ==
    Generated =>
        /\ Route(nginx_config, <<"api", "devices">>).path = "/api/"
        /\ Route(nginx_config, <<"error.html">>).path = "= /error.html"
        /\ Route(nginx_config, <<"api">>).path = "/"
        /\ Route(nginx_config, <<"index.html">>).path = "/"
        /\ \A i \in 1..Len(config.devices) :
              LET id == config.devices[i].id
              IN  /\ Route(nginx_config, <<id, "ws">>).path = "/" \o id \o "/ws"
                  /\ Route(nginx_config, <<id, "api", "status">>).path = "/" \o id \o "/"

(***************************************************************************)
(* upload_ota (ota_upload.py): the firmware image is posted first, the     *)
(* filesystem image after it.                                              *)
(***************************************************************************)
OtaPaths == [firmware |-> "firmware.bin", filesystem |-> "littlefs.bin"]

\* response.json(): the body parsed as Python's json does
PyJson(text) ==
    CASE text = "{\"status\": \"success\"}" ->
             [kind |-> "dict", fields |-> [status |-> "success"]]
      [] text = "{\"status\": \"error\", \"message\": \"Update failed\"}" ->
             [kind |-> "dict", fields |-> [status |-> "error", message |-> "Update failed"]]
      [] text = "{}" -> [kind |-> "dict", fields |-> NoFields]
      [] text = "[]" -> [kind |-> "list"]
      [] OTHER -> [kind |-> "invalid"]

\* dict.get(key): None for a missing key
DictGet(d, key) == IF key \in DOMAIN d THEN d[key] ELSE None

OtaBodies == {"{\"status\": \"success\"}",
              "{\"status\": \"error\", \"message\": \"Update failed\"}",
              "{}", "[]", "Update OK"}

\* what requests.post gives: a RequestException, or a response
OtaReplies ==
    {[kind |-> "error"]} \cup
    {[kind |-> "response", status_code |-> c, text |-> t] : c \in {200, 500}, t \in OtaBodies}

\* the mutant of UploadOutcome: the status field of the body is not read
UploadOutcomeStatusOnly(resp, decodeErrorCaught) ==
    IF resp.kind = "error" THEN "False"
    ELSE IF resp.status_code = 200
         THEN LET body == PyJson(resp.text)
              IN  IF body.kind = "invalid"
                  THEN IF decodeErrorCaught THEN "False" ELSE "raised"
                  ELSE IF body.kind # "dict" THEN "raised"
                  ELSE "success"
         ELSE "False"

\* the try block after requests.post: "success" falls through to the next
\* statement, "False" is return False, "raised" is an exception the except
\* clause does not catch (result.get on a body that is no dict).  A body that
\* is no JSON raises an error that is a RequestException from requests 2.27
\* on and a plain ValueError before: decodeErrorCaught tells which.
UploadOutcome(resp, decodeErrorCaught) ==
    IF resp.kind = "error" THEN "False"
    ELSE IF resp.status_code = 200
         THEN LET body == PyJson(resp.text)
              IN  IF body.kind = "invalid"
                  THEN IF decodeErrorCaught THEN "False" ELSE "raised"
                  ELSE IF body.kind # "dict" THEN "raised"
                  ELSE IF DictGet(body.fields, "status") = "success" THEN "success"
                  ELSE "False"
         ELSE "False"

Post(filename, data, resp) ==
    [url |-> "/ota", filename |-> filename, data |-> data, reply |-> resp]

\* if firmware_path: if not os.path.exists(firmware_path): return False
FirmwareCheck ==
    /\ opc = "firmware"
    /\ IF args.firmware_path = None
       THEN opc' = "filesystem" /\ UNCHANGED ret
       ELSE IF args.firmware_path \notin disk
            THEN opc' = "returned" /\ ret' = "False"
            ELSE opc' = "firmware_post" /\ UNCHANGED ret
    /\ UNCHANGED <<config, args, disk, posts, devVars, weatherVars, nginxVars, installVars>>

\* requests.post(f"{base_url}/ota", files=files, timeout=120) and its try block
FirmwarePost(resp, decodeErrorCaught) ==
    /\ opc = "firmware_post"
    /\ posts' = Append(posts, Post("firmware.bin", NoFields, resp))
    /\ LET outcome == UploadOutcome(resp, decodeErrorCaught)
       IN  CASE outcome = "success" -> opc' = "reboot" /\ UNCHANGED ret
             [] outcome = "False"   -> opc' = "returned" /\ ret' = "False"
             [] outcome = "raised"  -> opc' = "raised" /\ UNCHANGED ret
    /\ UNCHANGED <<config, args, disk, devVars, weatherVars, nginxVars, installVars>>

\* time.sleep(10): the device reboots
RebootWait ==
    /\ opc = "reboot"
    /\ opc' = "filesystem"
    /\ UNCHANGED <<config, args, disk, posts, ret, devVars, weatherVars, nginxVars,
                   installVars>>

\* if filesystem_path: if not os.path.exists(filesystem_path): return False
\* and, with no filesystem_path, the return True that ends the function
FilesystemCheck ==
    /\ opc = "filesystem"
    /\ IF args.filesystem_path = None
       THEN opc' = "returned" /\ ret' = "True"
       ELSE IF args.filesystem_path \notin disk
            THEN opc' = "returned" /\ ret' = "False"
            ELSE opc' = "filesystem_post" /\ UNCHANGED ret
    /\ UNCHANGED <<config, args, disk, posts, devVars, weatherVars, nginxVars, installVars>>

\* requests.post(..., data={'type': 'filesystem'}, timeout=180), its try
\* block and the return True after it
FilesystemPost(resp, decodeErrorCaught) ==
    /\ opc = "filesystem_post"
    /\ posts' = Append(posts, Post("littlefs.bin", [type |-> "filesystem"], resp))
    /\ LET outcome == UploadOutcome(resp, decodeErrorCaught)
       IN  CASE outcome = "success" -> opc' = "returned" /\ ret' = "True"
             [] outcome = "False"   -> opc' = "returned" /\ ret' = "False"
             [] outcome = "raised"  -> opc' = "raised" /\ UNCHANGED ret
    /\ UNCHANGED <<config, args, disk, devVars, weatherVars, nginxVars, installVars>>

\* upload_ota is called by main: at least one upload is asked for (firmware
\* when no flag is given), either file may be missing
InitOta ==
    /\ config = [devices |-> <<>>, weather |-> DefaultWeather]
    /\ DevicesIdle
    /\ WeatherIdle
    /\ NginxIdle
    /\ InstallIdle
    /\ opc = "firmware"
    /\ args \in [firmware_path : {None, OtaPaths.firmware},
                 filesystem_path : {None, OtaPaths.filesystem}]
    /\ args.firmware_path # None \/ args.filesystem_path # None
    /\ disk \in SUBSET {OtaPaths.firmware, OtaPaths.filesystem}
    /\ posts = <<>>
    /\ ret = "none"

NextOta ==
    \/ FirmwareCheck
    \/ \E resp \in OtaReplies, caught \in BOOLEAN : FirmwarePost(resp, caught)
    \/ RebootWait
    \/ FilesystemCheck
    \/ \E resp \in OtaReplies, caught \in BOOLEAN : FilesystemPost(resp, caught)

SpecOta == InitOta /\ [][NextOta]_vars

(***************************************************************************)
(* Claims about upload_ota.                                                *)
(***************************************************************************)
OtaOver == opc \in {"returned", "raised"}

UploadOf(p) == IF "type" \in DOMAIN p.data THEN p.data.type ELSE "firmware"

\* the reply was HTTP 200 with a JSON object whose status is "success"
Succeeded(p) ==
    IF p.reply.kind # "response" THEN FALSE
    ELSE /\ p.reply.status_code = 200
         /\ p.reply.text = "{\"status\": \"success\"}"

\* the reply was a connection error, a non-200 status or a JSON object whose
\* status is not "success"
Refused(p) ==
    IF p.reply.kind # "response" THEN TRUE
    ELSE \/ p.reply.status_code # 200
         \/ p.reply.text \in {"{\"status\": \"error\", \"message\": \"Update failed\"}", "{}"}

Requested == {u \in {"firmware", "filesystem"} : args[u \o "_path"] # None}

Answered(u) == \E i \in 1..Len(posts) : UploadOf(posts[i]) = u /\ Succeeded(posts[i])

FilesystemPosted == \E i \in 1..Len(posts) : UploadOf(posts[i]) = "filesystem"

FirmwareStepFailed ==
    /\ "firmware" \in Requested
    /\ \/ args.firmware_path \notin disk
       \/ Len(posts) >= 1 /\ Refused(posts[1])

\* C12: once upload_ota is over it has returned True exactly when every
\* requested upload was answered with HTTP 200 and a JSON object whose status
\* is "success"; each requested upload is posted at most once, the firmware
\* before the filesystem, and the filesystem only after the firmware upload
\* succeeded; when the firmware file is missing or the firmware post is
\* refused, no filesystem request is ever sent and upload_ota returns False.
C12_TrueIffAllSucceeded ==
    /\ OtaOver => (ret = "True" <=> \A u \in Requested : Answered(u))
    /\ ~OtaOver => ret = "none"
    /\ \A i, j \in 1..Len(posts) : UploadOf(posts[i]) = UploadOf(posts[j]) => i = j
    /\ \A i \in 1..Len(posts) : UploadOf(posts[i]) \in Requested
    /\ FilesystemPosted /\ "firmware" \in Requested =>
           /\ Len(posts) = 2
           /\ UploadOf(posts[1]) = "firmware"
           /\ Succeeded(posts[1])
    /\ FirmwareStepFailed =>
           /\ ~FilesystemPosted
           /\ opc \in {"firmware", "returned"}
           /\ OtaOver => ret = "False"

\* both uploads were requested, posted and answered with success
C12_Witness ==
    /\ ret = "True"
    /\ Requested = {"firmware", "filesystem"}
    /\ Len(posts) = 2

\* the firmware post was refused while a filesystem upload was requested too
C12_RefusedWitness ==
    /\ Requested = {"firmware", "filesystem"}
    /\ args.filesystem_path \in disk
    /\ Len(posts) = 1
    /\ Refused(posts[1])
    /\ ret = "False"

(***************************************************************************)
(* The installer: main and the interactive_config it calls.                *)
(***************************************************************************)
\* the devices dict of interactive_config, and the order its items come in
BuiltinOrder == <<"greenhouse", "coop1", "coop2", "coop3">>

devices ==
    [greenhouse |-> [name |-> "Greenhouse", icon |-> "seedling", type |-> "greenhouse",
                     description |-> "Main greenhouse - vegetables & seedlings"],
     coop1      |-> [name |-> "Coop Alpha", icon |-> "chicken", type |-> "chicken_coop",
                     description |-> "Layer hens - egg production"],
     coop2      |-> [name |-> "Coop Beta", icon |-> "rooster", type |-> "chicken_coop",
                     description |-> "Broilers - meat production"],
     coop3      |-> [name |-> "Coop Gamma", icon |-> "chick", type |-> "chicken_coop",
                     description |-> "Nursery - chicks & young birds"]]

\* d[key]: a missing key raises KeyError
Subscript(d, key) ==
    IF key \in DOMAIN d THEN [ok |-> TRUE, value |-> d[key]]
    ELSE [ok |-> FALSE, value |-> "KeyError"]

\* the names list a number 1-10 picks from
names ==
    <<"Verdant Valley Farms", "Greenfield Homestead", "Sunrise Organic Ranch",
      "Heritage Pastures", "Meadow Creek Farm", "Rolling Hills Ranch",
      "Oakwood Organics", "Golden Harvest Homestead", "Freedom Range Farm",
      "Wildflower Meadows">>

\* what the operator types at a prompt
FarmNameAnswers == {"", "3", " 3", "10", "11", "Green Acres"}
DomainAnswers   == {"", "hub.example"}
LatAnswers      == {"", "37.7749"}
LonAnswers      == {"", "-122.4194"}
IpAnswers       == {"", "10.0.0.163"}

\* str.strip()
Strip(s) == IF s = " 3" THEN "3" ELSE s

\* str.isdigit() and int() on the answers above
IsDigit(s) == s \in {"3", "10", "11"}
IntOf(s) == CASE s = "3" -> 3 [] s = "10" -> 10 [] s = "11" -> 11

\* a or b on strings
PyOr(a, b) == IF a # "" THEN a ELSE b

\* the config dict interactive_config starts from
ConfigSkeleton ==
    [farm_name |-> "", domain |-> "farm.local", devices |-> NoFields,
     weather |-> [cache_minutes |-> DefaultCacheMinutes, latitude |-> "", longitude |-> ""],
     ssl |-> [enabled |-> TRUE, self_signed |-> TRUE]]

\* the try block of main, in its order
StepOrder == <<"install_packages", "create_directories", "save_config",
               "generate_ssl_certificate", "configure_nginx", "setup_backend",
               "deploy_dashboard">>

\* farm_name = input(...).strip(); a number 1-10 picks a suggested name
AskFarmName(answer) ==
    /\ mpc = "farm_name"
    /\ LET typed     == Strip(answer)
           farm_name == IF IsDigit(typed) /\ 1 <= IntOf(typed) /\ IntOf(typed) <= 10
                        THEN names[IntOf(typed)] ELSE typed
       IN  cfg' = [cfg EXCEPT !.farm_name = PyOr(farm_name, "Farm Hub")]
    /\ mpc' = "domain"
    /\ UNCHANGED <<config, root, dev_i, raised, exit_status, ran, failed, config_file,
                   backend, devVars, weatherVars, nginxVars, otaVars>>

\* domain = input(...).strip(); config["domain"] = domain or config["domain"]
AskDomain(answer) ==
    /\ mpc = "domain"
    /\ cfg' = [cfg EXCEPT !.domain = PyOr(Strip(answer), cfg.domain)]
    /\ mpc' = "latitude"
    /\ UNCHANGED <<config, root, dev_i, raised, exit_status, ran, failed, config_file,
                   backend, devVars, weatherVars, nginxVars, otaVars>>

\* lat = input(...).strip(), stored in config["weather"]["latitude"]
AskLatitude(answer) ==
    /\ mpc = "latitude"
    /\ cfg' = [cfg EXCEPT !.weather.latitude = Strip(answer)]
    /\ mpc' = "longitude"
    /\ UNCHANGED <<config, root, dev_i, raised, exit_status, ran, failed, config_file,
                   backend, devVars, weatherVars, nginxVars, otaVars>>

\* lon = input(...).strip(), stored in config["weather"]["longitude"]
AskLongitude(answer) ==
    /\ mpc = "longitude"
    /\ cfg' = [cfg EXCEPT !.weather.longitude = Strip(answer)]
    /\ mpc' = "devices"
    /\ UNCHANGED <<config, root, dev_i, raised, exit_status, ran, failed, config_file,
                   backend, devVars, weatherVars, nginxVars, otaVars>>

\* one pass of for device_id, device_info in devices.items(): the prompt reads
\* device_info['default_ip']; a KeyError there leaves interactive_config and,
\* the call being outside main's try block, main, with a traceback and exit
\* status 1.  The pass of the last device is followed by return config.
DeviceLoop(answer, reachable) ==
    /\ mpc = "devices"
    /\ LET device_id   == BuiltinOrder[dev_i + 1]
           device_info == devices[device_id]
           default_ip  == Subscript(device_info, "default_ip")
       IN  IF ~default_ip.ok
           THEN /\ raised' = default_ip.value
                /\ exit_status' = 1
                /\ mpc' = "exited"
                /\ UNCHANGED <<cfg, dev_i>>
           ELSE LET ip == PyOr(Strip(answer), default_ip.value)
                    entry == [name |-> device_info.name, ip |-> ip, port |-> 80,
                              type |-> device_info.type, icon |-> device_info.icon,
                              description |-> device_info.description]
                IN  /\ cfg' = [cfg EXCEPT !.devices = Put(cfg.devices, device_id, entry)]
                    /\ dev_i' = dev_i + 1
                    /\ mpc' = IF dev_i + 1 = Len(BuiltinOrder) THEN "install" ELSE "devices"
                    /\ UNCHANGED <<raised, exit_status>>
    /\ UNCHANGED <<config, root, ran, failed, config_file, backend,
                   devVars, weatherVars, nginxVars, otaVars>>

\* main's own statements.  At "main": if not is_root(): sys.exit(1), else
\* interactive_config() is entered.  At "install": the next step of the try
\* block runs; a step that raises is caught by except Exception, which exits
\* with status 1; after the seventh step main ends with status 0.
MainStep(ok) ==
    /\ mpc \in {"main", "install"}
    /\ IF mpc = "main"
       THEN /\ IF root
               THEN /\ mpc' = "farm_name"
                    /\ cfg' = ConfigSkeleton
                    /\ UNCHANGED exit_status
               ELSE /\ mpc' = "exited"
                    /\ exit_status' = 1
                    /\ UNCHANGED cfg
            /\ UNCHANGED <<ran, failed, config_file, backend>>
       ELSE LET step == StepOrder[Len(ran) + 1]
            IN  IF ok
                THEN /\ ran' = Append(ran, step)
                     /\ config_file' = IF step = "save_config"
                                       THEN [exists |-> TRUE, content |-> cfg]
                                       ELSE config_file
                     /\ backend' = IF step = "setup_backend"
                                   THEN [started |-> TRUE, loaded |-> config_file.content]
                                   ELSE backend
                     /\ IF Len(ran) + 1 = Len(StepOrder)
                        THEN mpc' = "exited" /\ exit_status' = 0
                        ELSE UNCHANGED <<mpc, exit_status>>
                     /\ UNCHANGED <<cfg, failed>>
                ELSE /\ failed' = step
                     /\ mpc' = "exited"
                     /\ exit_status' = 1
                     /\ UNCHANGED <<cfg, ran, config_file, backend>>
    /\ UNCHANGED <<config, root, dev_i, raised, devVars, weatherVars, nginxVars, otaVars>>

\* the installer is started, as root or not
InitInstall ==
    /\ config = [devices |-> <<>>, weather |-> DefaultWeather]
    /\ DevicesIdle
    /\ WeatherIdle
    /\ NginxIdle
    /\ OtaIdle
    /\ mpc = "main"
    /\ root \in BOOLEAN
    /\ cfg = <<>>
    /\ dev_i = 0
    /\ raised = ""
    /\ exit_status = -1
    /\ ran = <<>>
    /\ failed = ""
    /\ config_file = [exists |-> FALSE, content |-> <<>>]
    /\ backend = [started |-> FALSE, loaded |-> <<>>]

NextInstall ==
    \/ \E ok \in BOOLEAN : MainStep(ok)
    \/ \E answer \in FarmNameAnswers : AskFarmName(answer)
    \/ \E answer \in DomainAnswers : AskDomain(answer)
    \/ \E answer \in LatAnswers : AskLatitude(answer)
    \/ \E answer \in LonAnswers : AskLongitude(answer)
    \/ \E answer \in IpAnswers, reachable \in BOOLEAN : DeviceLoop(answer, reachable)

SpecInstall == InitInstall /\ [][NextInstall]_vars

(***************************************************************************)
(* Claims about main and interactive_config.                               *)
(***************************************************************************)
StepsBefore(step) ==
    LET k == CHOOSE i \in 1..Len(StepOrder) : StepOrder[i] = step
    IN  SubSeq(StepOrder, 1, k - 1)

Ran(step) == \E i \in 1..Len(ran) : ran[i] = step

\* C13: the steps main has run are the first steps of the order packages,
\* directories, save configuration, SSL certificate, nginx, backend,
\* dashboard; a step that fails ends the run with exit status 1 after exactly
\* the steps before it; the backend is started only after the configuration
\* file was saved, and reads that configuration; no step runs when the process
\* is not root; and a run as root in which no step fails runs all seven.
C13_SevenStepsInOrder ==
    /\ ran = SubSeq(StepOrder, 1, Len(ran))
    /\ failed # "" => /\ mpc = "exited"
                      /\ exit_status = 1
                      /\ ran = StepsBefore(failed)
    /\ backend.started => /\ Ran("save_config")
                          /\ config_file.exists
                          /\ backend.loaded = cfg
    /\ ~root => ran = <<>> /\ failed = "" /\ ~backend.started
    /\ mpc = "exited" /\ ~root => exit_status = 1
    /\ mpc = "exited" /\ root /\ failed = "" => ran = StepOrder /\ exit_status = 0

\* interactive_config was called and is over
ConfigOver == root /\ mpc \in {"install", "exited"}

\* C14: whatever the operator answers, interactive_config returns normally,
\* and the configuration it returns holds exactly one device entry for each
\* of greenhouse, coop1, coop2 and coop3, with name, ip, port 80, type, icon
\* and description.
C14_ReturnsFourDevices ==
    ConfigOver =>
        /\ raised = ""
        /\ DOMAIN cfg.devices = {"greenhouse", "coop1", "coop2", "coop3"}
        /\ \A id \in DOMAIN cfg.devices :
              /\ DOMAIN cfg.devices[id] = {"name", "ip", "port", "type", "icon", "description"}
              /\ cfg.devices[id].port = 80
              /\ cfg.devices[id].name = devices[id].name
              /\ cfg.devices[id].ip # ""

====
